---- MODULE Spec2Model ----
(***************************************************************************)
(* The asynchronous transcription job manager of the NLP service:          *)
(* TranscriptionService (services/transcription_service.py) and the        *)
(* whisper router (routers/whisper.py) that calls it.                      *)
(*                                                                         *)
(* Threads.  The router's handlers are coroutines without an await after   *)
(* the upload has been read, so they run one at a time on the event loop:  *)
(* the model has one request in flight (req).  The runners execute on the  *)
(* ThreadPoolExecutor's worker threads and interleave with the request and *)
(* with each other between any two statements.  self._lock is held by a    *)
(* runner from the first to the last assignment of a `with self._lock:`    *)
(* block; the router reads the fields of the object get_job returned       *)
(* after get_job has released the lock.                                    *)
(*                                                                         *)
(* Optional values: None is <<>> and a value x is <<x>>; completed_at is a *)
(* clock reading >= 1, or 0 for None.  Strings that are stripped are       *)
(* sequences of Unicode code points.                                       *)
(***************************************************************************)
EXTENDS Integers, Sequences, FiniteSets, TLC

\* ---------------------------------------------------------------- bounds
MaxJobs == 2
max_workers == 1
MaxTime == 2
job_ttl_seconds == 0

\* ------------------------------------------------------------- constants
\* def __init__(self, max_workers: int = 2, ...)
default_max_workers == 2

Ids == 1..MaxJobs
None == <<>>
Some(x) == <<x>>

PENDING == "pending"
PROCESSING == "processing"
COMPLETED == "completed"
FAILED == "failed"
CANCELLED == "cancelled"
JobStatus == {PENDING, PROCESSING, COMPLETED, FAILED, CANCELLED}
Terminal == {COMPLETED, FAILED, CANCELLED}

WHISPER_MODELS == {"tiny", "base", "small", "medium", "large"}

\* The (language, model) forms a client submits; every model is one of
\* WHISPER_MODELS (router l.83-84), or the router answers 400.
Submissions ==
    { [language |-> None, model |-> "tiny"],
      [language |-> Some("en"), model |-> "base"] }

\* str(e) of the errors the backend raises; an error raised without a
\* message (a bare assert, RuntimeError()) has the empty description.
ErrorDescriptions == {"", "disk full"}

\* What whisper's transcribe returns: text, the "language" key (None when the
\* key is absent) and the end times of the segments, in tenths of a second.
\* The texts are "\th i\n" and "hi".
BackendResults ==
    { [text |-> <<9, 104, 32, 105, 10>>, language |-> Some("en"), segments |-> <<15>>],
      [text |-> <<104, 105>>, language |-> None, segments |-> <<>>] }

\* The code points c for which chr(c).isspace(): the characters that
\* str.strip() removes.
Whitespace ==
    (9..13) \cup (28..32) \cup {133, 160, 5760} \cup (8192..8202)
        \cup {8232, 8233, 8239, 8287, 12288}

\* str.strip(): leading and trailing whitespace removed.
RECURSIVE LStrip(_)
LStrip(s) == IF s # <<>> /\ Head(s) \in Whitespace THEN LStrip(Tail(s)) ELSE s
RECURSIVE RStrip(_)
RStrip(s) ==
    IF s # <<>> /\ s[Len(s)] \in Whitespace THEN RStrip(SubSeq(s, 1, Len(s) - 1)) ELSE s
Strip(s) == RStrip(LStrip(s))

\* f"Transcription failed: {e}"
FailedMessage(e) == <<"Transcription failed: ", e>>

\* Any other message: one literal.
Msg(s) == <<s>>

\* ----------------------------------------------------------------- state
VARIABLES
    jobs,               \* keys of self._jobs
    job,                \* the TranscriptionJob objects, by job_id
    next_id,            \* the next job_id start_transcription draws
    args,               \* the work item's (language, model), by job_id
    queue,              \* work items submitted to the executor, not yet started
    pc,                 \* position of each job's _run_transcription
    result,             \* the runner's local `result` (None before transcribe)
    exc,                \* the runner's caught exception `e`
    handle,             \* the runner's local `whisper_model`
    lock,               \* holder of self._lock: 0, or the runner's job_id
    model_lock,         \* holder of self._model_lock
    whisper_model,      \* self._whisper_model: None, or the name it was loaded for
    current_model_name, \* self._current_model_name
    files,              \* temporary input files that exist
    now,                \* time.time()
    req,                \* the request the event loop is handling
    completed_at_writes,\* history: assignments to job.completed_at
    snapshots,          \* history: (status, progress, message) held outside lock sections
    flag_at_start,      \* history: job.cancelled as the worker found it on taking the item
    cancelled_at,       \* history: time.time() when the runner wrote CANCELLED (0: never)
    deleted             \* history: the job_ids whose record delete_job removed

vars == <<jobs, job, next_id, args, queue, pc, result, exc, handle, lock,
          model_lock, whisper_model, current_model_name, files, now, req,
          completed_at_writes, snapshots, flag_at_start, cancelled_at, deleted>>

runner_vars == <<pc, result, exc, handle>>
model_vars == <<model_lock, whisper_model, current_model_name>>
store_vars == <<jobs, next_id, args, queue>>
hist_vars == <<completed_at_writes, snapshots, flag_at_start, cancelled_at, deleted>>

\* TranscriptionJob(job_id, status=PENDING, message="Queued for transcription")
TranscriptionJob ==
    [status |-> PENDING, progress |-> 0, message |-> Msg("Queued for transcription"),
     text |-> None, language |-> None, duration_seconds |-> 0,
     completed_at |-> 0, error |-> None, cancelled |-> FALSE]

IdleReq == [op |-> "idle", pc |-> "idle", id |-> 0, found |-> FALSE,
            status |-> "", progress |-> 0, message |-> Msg(""), text |-> None,
            language |-> None, duration_seconds |-> 0, error |-> None,
            response |-> "none"]

Triple(r) == <<r.status, r.progress, r.message>>

Init ==
    /\ jobs = {}
    /\ job = [j \in Ids |-> TranscriptionJob]
    /\ next_id = 1
    /\ args = [j \in Ids |-> [language |-> None, model |-> "tiny"]]
    /\ queue = <<>>
    /\ pc = [j \in Ids |-> "new"]
    /\ result = [j \in Ids |-> None]
    /\ exc = [j \in Ids |-> None]
    /\ handle = [j \in Ids |-> None]
    /\ lock = 0
    /\ model_lock = 0
    /\ whisper_model = None
    /\ current_model_name = None
    /\ files = {}
    /\ now = 1
    /\ req = IdleReq
    /\ completed_at_writes = [j \in Ids |-> 0]
    /\ snapshots = [j \in Ids |-> {}]
    /\ flag_at_start = [j \in Ids |-> FALSE]
    /\ cancelled_at = [j \in Ids |-> 0]
    /\ deleted = {}

\* ------------------------------------------------------- the worker pool
\* Runners that a worker thread is executing.
Running == {j \in Ids : pc[j] \notin {"new", "queued", "done"}}

\* Mutant of Dequeue: the work item starts whether or not a worker is free.
DequeueUnbounded ==
    /\ queue # <<>>
    /\ pc' = [pc EXCEPT ![Head(queue)] = "l190"]
    /\ queue' = Tail(queue)
    /\ flag_at_start' = [flag_at_start EXCEPT ![Head(queue)] = job[Head(queue)].cancelled]
    /\ UNCHANGED <<jobs, job, next_id, args, result, exc, handle, lock,
                   model_vars, files, now, req, completed_at_writes, snapshots,
                   cancelled_at, deleted>>

\* Mutant of Dequeue: the work items that wait behind the oldest are dropped.
DequeueDropsWaiting ==
    /\ queue # <<>>
    /\ Cardinality(Running) < max_workers
    /\ pc' = [pc EXCEPT ![Head(queue)] = "l190"]
    /\ queue' = <<>>
    /\ flag_at_start' = [flag_at_start EXCEPT ![Head(queue)] = job[Head(queue)].cancelled]
    /\ UNCHANGED <<jobs, job, next_id, args, result, exc, handle, lock,
                   model_vars, files, now, req, completed_at_writes, snapshots,
                   cancelled_at, deleted>>

\* Mutant of Dequeue: one work item more than there are workers is started.
DequeueOverbooked ==
    /\ queue # <<>>
    /\ Cardinality(Running) <= max_workers
    /\ pc' = [pc EXCEPT ![Head(queue)] = "l190"]
    /\ queue' = Tail(queue)
    /\ flag_at_start' = [flag_at_start EXCEPT ![Head(queue)] = job[Head(queue)].cancelled]
    /\ UNCHANGED <<jobs, job, next_id, args, result, exc, handle, lock,
                   model_vars, files, now, req, completed_at_writes, snapshots,
                   cancelled_at, deleted>>

\* Dequeue for the pool of the default size.
DequeueDefault ==
    /\ queue # <<>>
    /\ Cardinality(Running) < default_max_workers
    /\ pc' = [pc EXCEPT ![Head(queue)] = "l190"]
    /\ queue' = Tail(queue)
    /\ flag_at_start' = [flag_at_start EXCEPT ![Head(queue)] = job[Head(queue)].cancelled]
    /\ UNCHANGED <<jobs, job, next_id, args, result, exc, handle, lock,
                   model_vars, files, now, req, completed_at_writes, snapshots,
                   cancelled_at, deleted>>

\* ThreadPoolExecutor(max_workers): a free worker takes the oldest work item.
Dequeue ==
    /\ queue # <<>>
    /\ Cardinality(Running) < max_workers
    /\ pc' = [pc EXCEPT ![Head(queue)] = "l190"]
    /\ queue' = Tail(queue)
    /\ flag_at_start' = [flag_at_start EXCEPT ![Head(queue)] = job[Head(queue)].cancelled]
    /\ UNCHANGED <<jobs, job, next_id, args, result, exc, handle, lock,
                   model_vars, files, now, req, completed_at_writes, snapshots,
                   cancelled_at, deleted>>

\* ------------------------------------------------- _run_transcription
\* One statement of a `with self._lock:` block of job j's runner: the first
\* one acquires the lock, the last one releases it.
Write(j, from, first, last, to, r) ==
    /\ pc[j] = from
    /\ lock = (IF first THEN 0 ELSE j)
    /\ job' = [job EXCEPT ![j] = r]
    /\ lock' = (IF last THEN 0 ELSE j)
    /\ pc' = [pc EXCEPT ![j] = to]
    /\ snapshots' = IF last THEN [snapshots EXCEPT ![j] = @ \cup {Triple(r)}]
                    ELSE snapshots
    /\ cancelled_at' = IF r.status = CANCELLED /\ job[j].status # CANCELLED
                       THEN [cancelled_at EXCEPT ![j] = now]
                       ELSE cancelled_at
    /\ UNCHANGED <<store_vars, result, exc, handle, model_vars, files, now, req,
                   flag_at_start, deleted>>

\* l.190-192: job = self._jobs.get(job_id); if not job: return
RunGetJob(j) ==
    /\ pc[j] = "l190"
    /\ pc' = [pc EXCEPT ![j] = IF j \in jobs THEN "l197" ELSE "done"]
    /\ flag_at_start' = IF j \in jobs THEN flag_at_start
                        ELSE [flag_at_start EXCEPT ![j] = FALSE]
    /\ UNCHANGED <<store_vars, job, result, exc, handle, lock, model_vars,
                   files, now, req, completed_at_writes, snapshots, cancelled_at, deleted>>

\* l.196-199
RunProcessingStatus(j) ==
    /\ Write(j, "l197", TRUE, FALSE, "l198", [job[j] EXCEPT !.status = PROCESSING])
    /\ UNCHANGED completed_at_writes

RunProcessingMessage(j) ==
    /\ Write(j, "l198", FALSE, FALSE, "l199", [job[j] EXCEPT !.message = Msg("Loading model...")])
    /\ UNCHANGED completed_at_writes

RunProcessingProgress(j) ==
    /\ Write(j, "l199", FALSE, TRUE, "l202", [job[j] EXCEPT !.progress = 5])
    /\ UNCHANGED completed_at_writes

\* Mutant of CheckCancelled: the flag is not looked at.
CheckCancelledIgnored(j, at, then, else) ==
    /\ pc[j] = at
    /\ pc' = [pc EXCEPT ![j] = else]
    /\ UNCHANGED <<store_vars, job, result, exc, handle, lock, model_vars,
                   files, now, req, hist_vars>>

\* `if job.cancelled:` at l.202, l.216 and l.230, read without the lock.
CheckCancelled(j, at, then, else) ==
    /\ pc[j] = at
    /\ pc' = [pc EXCEPT ![j] = IF job[j].cancelled THEN then ELSE else]
    /\ UNCHANGED <<store_vars, job, result, exc, handle, lock, model_vars,
                   files, now, req, hist_vars>>

\* job.status = JobStatus.CANCELLED (l.204, l.218, l.232)
CancelStatus(j, at, to) ==
    /\ Write(j, at, TRUE, FALSE, to, [job[j] EXCEPT !.status = CANCELLED])
    /\ UNCHANGED completed_at_writes

\* Mutant of CancelMessage: the `return` after the block is missing, so the
\* runner falls through to the statement that follows the checkpoint.
CancelMessageNoReturn(j, at) ==
    /\ Write(j, at, FALSE, TRUE,
             IF at = "l205" THEN "l209" ELSE IF at = "l219" THEN "l227" ELSE "l238",
             [job[j] EXCEPT !.message = Msg("Cancelled by user")])
    /\ UNCHANGED completed_at_writes

\* job.message = "Cancelled by user"; return (l.205-206, l.219-220, l.233-234)
CancelMessage(j, at) ==
    /\ Write(j, at, FALSE, TRUE, "l258", [job[j] EXCEPT !.message = Msg("Cancelled by user")])
    /\ UNCHANGED completed_at_writes

RunCheck1(j) == CheckCancelled(j, "l202", "l204", "l209")
RunCancel1Status(j) == CancelStatus(j, "l204", "l205")
RunCancel1Message(j) == CancelMessage(j, "l205")

\* Mutant of LoadModelEnter: _load_model does not wait for the model lock.
LoadModelEnterUnlocked(j) ==
    /\ pc[j] = "l209"
    /\ model_lock' = j
    /\ pc' = [pc EXCEPT ![j] = "l141"]
    /\ UNCHANGED <<store_vars, job, result, exc, handle, lock, whisper_model,
                   current_model_name, files, now, req, hist_vars>>

\* l.209 -> _load_model l.140: with self._model_lock
LoadModelEnter(j) ==
    /\ pc[j] = "l209"
    /\ model_lock = 0
    /\ model_lock' = j
    /\ pc' = [pc EXCEPT ![j] = "l141"]
    /\ UNCHANGED <<store_vars, job, result, exc, handle, lock, whisper_model,
                   current_model_name, files, now, req, hist_vars>>

\* l.141: the cache test of _load_model
CacheMiss(name) == whisper_model = None \/ current_model_name # Some(name)

\* l.141: the cached name is the requested one; nothing is loaded
LoadModelHit(j) ==
    /\ pc[j] = "l141"
    /\ ~CacheMiss(args[j].model)
    /\ pc' = [pc EXCEPT ![j] = "l146"]
    /\ UNCHANGED <<store_vars, job, result, exc, handle, lock, model_vars,
                   files, now, req, hist_vars>>

\* l.142-144: self._whisper_model = whisper.load_model(model_name); the
\* handle is written as the name it was loaded for
LoadModelMiss(j) ==
    /\ pc[j] = "l141"
    /\ CacheMiss(args[j].model)
    /\ whisper_model' = Some(args[j].model)
    /\ pc' = [pc EXCEPT ![j] = "l145"]
    /\ UNCHANGED <<store_vars, job, result, exc, handle, lock, model_lock,
                   current_model_name, files, now, req, hist_vars>>

\* l.144: whisper.load_model raises; the with block releases the model lock
LoadModelRaise(j) ==
    /\ pc[j] = "l141"
    /\ CacheMiss(args[j].model)
    /\ \E e \in ErrorDescriptions : exc' = [exc EXCEPT ![j] = Some(e)]
    /\ model_lock' = 0
    /\ pc' = [pc EXCEPT ![j] = "l251"]
    /\ UNCHANGED <<store_vars, job, result, handle, lock, whisper_model,
                   current_model_name, files, now, req, hist_vars>>

\* l.145: self._current_model_name = model_name
LoadModelSetName(j) ==
    /\ pc[j] = "l145"
    /\ current_model_name' = Some(args[j].model)
    /\ pc' = [pc EXCEPT ![j] = "l146"]
    /\ UNCHANGED <<store_vars, job, result, exc, handle, lock, model_lock,
                   whisper_model, files, now, req, hist_vars>>

\* l.146 and l.209: return self._whisper_model, kept in the runner's local
\* whisper_model; the with block releases the model lock
LoadModelReturn(j) ==
    /\ pc[j] = "l146"
    /\ handle' = [handle EXCEPT ![j] = whisper_model]
    /\ model_lock' = 0
    /\ pc' = [pc EXCEPT ![j] = "l212"]
    /\ UNCHANGED <<store_vars, job, result, exc, lock, whisper_model,
                   current_model_name, files, now, req, hist_vars>>

\* l.211-213
RunTranscribingMessage(j) ==
    /\ Write(j, "l212", TRUE, FALSE, "l213", [job[j] EXCEPT !.message = Msg("Transcribing audio...")])
    /\ UNCHANGED completed_at_writes

\* Mutant of RunTranscribingProgress: the lock section of l.211 is not left.
RunTranscribingProgressLocked(j) ==
    /\ Write(j, "l213", FALSE, FALSE, "l216", [job[j] EXCEPT !.progress = 10])
    /\ UNCHANGED completed_at_writes

RunTranscribingProgress(j) ==
    /\ Write(j, "l213", FALSE, TRUE, "l216", [job[j] EXCEPT !.progress = 10])
    /\ UNCHANGED completed_at_writes

RunCheck2(j) == CheckCancelled(j, "l216", "l218", "l227")
RunCancel2Status(j) == CancelStatus(j, "l218", "l219")
RunCancel2Message(j) == CancelMessage(j, "l219")

\* Mutant of TranscribeHandle: transcribe is called on the cache entry as it
\* is at the time of the call.
TranscribeHandleShared(j) == whisper_model

\* l.223: the object whose transcribe is called, the runner's local
\* whisper_model
TranscribeHandle(j) == handle[j]

\* l.227: whisper_model.transcribe(...) returns
TranscribeReturn(j) ==
    /\ pc[j] = "l227"
    /\ TranscribeHandle(j) # None
    /\ \E r \in BackendResults : result' = [result EXCEPT ![j] = Some(r)]
    /\ pc' = [pc EXCEPT ![j] = "l230"]
    /\ UNCHANGED <<store_vars, job, exc, handle, lock, model_vars, files, now,
                   req, hist_vars>>

\* l.227: whisper_model.transcribe(...) raises
TranscribeRaise(j) ==
    /\ pc[j] = "l227"
    /\ \E e \in ErrorDescriptions : exc' = [exc EXCEPT ![j] = Some(e)]
    /\ pc' = [pc EXCEPT ![j] = "l251"]
    /\ UNCHANGED <<store_vars, job, result, handle, lock, model_vars, files,
                   now, req, hist_vars>>

\* Mutant of RunCheck3: the flag is not looked at after transcribe.
RunCheck3Ignored(j) == CheckCancelledIgnored(j, "l230", "l232", "l238")
RunCheck3(j) == CheckCancelled(j, "l230", "l232", "l238")
RunCancel3Status(j) == CancelStatus(j, "l232", "l233")
RunCancel3Message(j) == CancelMessage(j, "l233")

\* Mutant of RunCompletedStatus: the status is left as it was.
RunCompletedStatusSkipped(j) ==
    /\ Write(j, "l238", TRUE, FALSE, "l239", job[j])
    /\ UNCHANGED completed_at_writes

\* l.237-247
RunCompletedStatus(j) ==
    /\ Write(j, "l238", TRUE, FALSE, "l239", [job[j] EXCEPT !.status = COMPLETED])
    /\ UNCHANGED completed_at_writes

RunCompletedProgress(j) ==
    /\ Write(j, "l239", FALSE, FALSE, "l240", [job[j] EXCEPT !.progress = 100])
    /\ UNCHANGED completed_at_writes

RunCompletedMessage(j) ==
    /\ Write(j, "l240", FALSE, FALSE, "l241", [job[j] EXCEPT !.message = Msg("Transcription complete")])
    /\ UNCHANGED completed_at_writes

\* Mutant of RunCompletedText: the text is stored as the backend gave it.
RunCompletedTextRaw(j) ==
    /\ Write(j, "l241", FALSE, FALSE, "l242",
             [job[j] EXCEPT !.text = Some(result[j][1].text)])
    /\ UNCHANGED completed_at_writes

\* job.text = result.get("text", "").strip()
RunCompletedText(j) ==
    /\ Write(j, "l241", FALSE, FALSE, "l242",
             [job[j] EXCEPT !.text = Some(Strip(result[j][1].text))])
    /\ UNCHANGED completed_at_writes

\* result.get("language", language)
ResultLanguage(r, language) == IF r.language # None THEN r.language ELSE language

\* l.242-245: job.language = ...; segments = ...; if segments:
RunCompletedLanguage(j) ==
    /\ Write(j, "l242", FALSE, FALSE,
             IF result[j][1].segments # <<>> THEN "l246" ELSE "l247",
             [job[j] EXCEPT !.language = ResultLanguage(result[j][1], args[j].language)])
    /\ UNCHANGED completed_at_writes

\* job.duration_seconds = segments[-1].get("end", 0)
RunCompletedDuration(j) ==
    /\ Write(j, "l246", FALSE, FALSE, "l247",
             [job[j] EXCEPT !.duration_seconds =
                  result[j][1].segments[Len(result[j][1].segments)]])
    /\ UNCHANGED completed_at_writes

\* Mutant of RunCompletedAt: the block ends without stamping completed_at.
RunCompletedAtSkipped(j) ==
    /\ Write(j, "l247", FALSE, TRUE, "l258", job[j])
    /\ UNCHANGED completed_at_writes

\* job.completed_at = time.time()
RunCompletedAt(j) ==
    /\ Write(j, "l247", FALSE, TRUE, "l258", [job[j] EXCEPT !.completed_at = now])
    /\ completed_at_writes' = [completed_at_writes EXCEPT ![j] = @ + 1]

\* Mutant of RunFailedStatus: the failure also resets the progress.
RunFailedStatusResets(j) ==
    /\ Write(j, "l251", TRUE, FALSE, "l252",
             [job[j] EXCEPT !.status = FAILED, !.progress = 0])
    /\ UNCHANGED completed_at_writes

\* l.249-254: except Exception as e
RunFailedStatus(j) ==
    /\ Write(j, "l251", TRUE, FALSE, "l252", [job[j] EXCEPT !.status = FAILED])
    /\ UNCHANGED completed_at_writes

\* Mutant of RunFailedError: the description is not stored.
RunFailedErrorLost(j) ==
    /\ Write(j, "l252", FALSE, FALSE, "l253", job[j])
    /\ UNCHANGED completed_at_writes

\* job.error = str(e)
RunFailedError(j) ==
    /\ Write(j, "l252", FALSE, FALSE, "l253", [job[j] EXCEPT !.error = exc[j]])
    /\ UNCHANGED completed_at_writes

RunFailedMessage(j) ==
    /\ Write(j, "l253", FALSE, FALSE, "l254",
             [job[j] EXCEPT !.message = FailedMessage(exc[j][1])])
    /\ UNCHANGED completed_at_writes

\* Mutant of RunFailedAt: the runner does not return after recording the
\* failure, so its worker thread is lost.
RunFailedAtHangs(j) ==
    /\ Write(j, "l254", FALSE, TRUE, "hung", [job[j] EXCEPT !.completed_at = now])
    /\ completed_at_writes' = [completed_at_writes EXCEPT ![j] = @ + 1]

RunFailedAt(j) ==
    /\ Write(j, "l254", FALSE, TRUE, "l258", [job[j] EXCEPT !.completed_at = now])
    /\ completed_at_writes' = [completed_at_writes EXCEPT ![j] = @ + 1]

\* Mutant of RunCleanup: the runner also removes its record from the store.
RunCleanupRemovesRecord(j) ==
    /\ pc[j] = "l258"
    /\ files' = files \ {j}
    /\ jobs' = jobs \ {j}
    /\ pc' = [pc EXCEPT ![j] = "done"]
    /\ result' = [result EXCEPT ![j] = None]
    /\ exc' = [exc EXCEPT ![j] = None]
    /\ handle' = [handle EXCEPT ![j] = None]
    /\ args' = [args EXCEPT ![j] = [language |-> None, model |-> "tiny"]]
    /\ flag_at_start' = [flag_at_start EXCEPT ![j] = FALSE]
    /\ UNCHANGED <<next_id, queue, job, lock, model_vars, now, req,
                   completed_at_writes, snapshots, cancelled_at, deleted>>

\* l.256-262 when os.remove (l.260) raises OSError, which l.261-262 swallow:
\* the temporary file stays; the worker is free again all the same
RunCleanupRemoveFails(j) ==
    /\ pc[j] = "l258"
    /\ j \in files
    /\ pc' = [pc EXCEPT ![j] = "done"]
    /\ result' = [result EXCEPT ![j] = None]
    /\ exc' = [exc EXCEPT ![j] = None]
    /\ handle' = [handle EXCEPT ![j] = None]
    /\ args' = [args EXCEPT ![j] = [language |-> None, model |-> "tiny"]]
    /\ flag_at_start' = [flag_at_start EXCEPT ![j] = FALSE]
    /\ UNCHANGED <<jobs, next_id, queue, job, lock, model_vars, files, now, req,
                   completed_at_writes, snapshots, cancelled_at, deleted>>

\* l.256-262: finally: the temporary file is removed if it exists (the
\* uploads all lie in tempfile.gettempdir()); the worker is free again and
\* the work item and its locals are gone
RunCleanup(j) ==
    /\ pc[j] = "l258"
    /\ files' = files \ {j}
    /\ pc' = [pc EXCEPT ![j] = "done"]
    /\ result' = [result EXCEPT ![j] = None]
    /\ exc' = [exc EXCEPT ![j] = None]
    /\ handle' = [handle EXCEPT ![j] = None]
    /\ args' = [args EXCEPT ![j] = [language |-> None, model |-> "tiny"]]
    /\ flag_at_start' = [flag_at_start EXCEPT ![j] = FALSE]
    /\ UNCHANGED <<jobs, next_id, queue, job, lock, model_vars, now, req,
                   completed_at_writes, snapshots, cancelled_at, deleted>>

\* ------------------------------------------------ TranscriptionService
\* Mutant of Expired: a record without completed_at counts as stamped at 0.
ExpiredByAge(r, t) == (t - r.completed_at) > job_ttl_seconds

\* Mutant of Expired: >= for >.
ExpiredAtTtl(r, t) == r.completed_at # 0 /\ (t - r.completed_at) >= job_ttl_seconds

\* l.296: the reaper's test, at time t
Expired(r, t) == r.completed_at # 0 /\ (t - r.completed_at) > job_ttl_seconds

\* l.290-299: the keys left by _cleanup_old_jobs
CleanupOldJobs(store, t) == store \ {j \in store : Expired(job[j], t)}

\* Mutant of CancelJob: the flag is set whatever the status.
CancelJobAnyStatus(r) == [r EXCEPT !.cancelled = TRUE]

\* l.269-280: the record cancel_job leaves
CancelJob(r) ==
    IF r.status \in {PENDING, PROCESSING} THEN [r EXCEPT !.cancelled = TRUE] ELSE r

\* l.271-280: the value cancel_job returns for key j of the store
CancelJobReturn(store, j) ==
    IF j \notin store THEN FALSE
    ELSE IF job[j].status \in {PENDING, PROCESSING} THEN TRUE
    ELSE FALSE

\* Mutant of DeleteJob: the key is left in the store.
DeleteJobKept(store, j) == store

\* l.282-288: the keys delete_job leaves
DeleteJob(store, j) == store \ {j}

\* ---------------------------------------------------------- the router
Respond(kind) == [req EXCEPT !.pc = "respond", !.response = kind]

\* routers/whisper.py l.101-118 and start_transcription l.165-171, before
\* self._lock is asked for: the upload is saved to its temporary file, the
\* job_id is drawn and the TranscriptionJob object is built
StartSave ==
    /\ req.op = "idle"
    /\ next_id <= MaxJobs
    /\ \E form \in Submissions : args' = [args EXCEPT ![next_id] = form]
    /\ files' = files \cup {next_id}
    /\ next_id' = next_id + 1
    /\ snapshots' = [snapshots EXCEPT ![next_id] = @ \cup {Triple(job[next_id])}]
    /\ req' = [IdleReq EXCEPT !.op = "transcribe", !.pc = "l173", !.id = next_id]
    /\ UNCHANGED <<jobs, job, queue, runner_vars, lock, model_vars, now,
                   completed_at_writes, flag_at_start, cancelled_at, deleted>>

\* Mutant of StartInsert: the record is not put in the store.
StartInsertNoRecord ==
    /\ req.op = "transcribe"
    /\ req.pc = "l173"
    /\ lock = 0
    /\ jobs' = CleanupOldJobs(jobs, now)
    /\ req' = [req EXCEPT !.pc = "l178"]
    /\ UNCHANGED <<job, next_id, args, queue, runner_vars, lock, model_vars,
                   files, now, hist_vars>>

\* start_transcription l.173-175: in one section of self._lock the record is
\* inserted and the reaper runs, at the time it reads at l.292
StartInsert ==
    /\ req.op = "transcribe"
    /\ req.pc = "l173"
    /\ lock = 0
    /\ jobs' = CleanupOldJobs(jobs \cup {req.id}, now)
    /\ req' = [req EXCEPT !.pc = "l178"]
    /\ UNCHANGED <<job, next_id, args, queue, runner_vars, lock, model_vars,
                   files, now, hist_vars>>

\* l.178-180 and router l.119: the work item is handed to the executor
StartSubmit ==
    /\ req.op = "transcribe"
    /\ req.pc = "l178"
    /\ queue' = Append(queue, req.id)
    /\ pc' = [pc EXCEPT ![req.id] = "queued"]
    /\ req' = Respond("queued")
    /\ UNCHANGED <<jobs, job, next_id, args, result, exc, handle, lock,
                   model_vars, files, now, hist_vars>>

\* l.178 raises; start_transcription has no handler, so the router's except
\* clause (router l.121) is entered.  ThreadPoolExecutor.submit raises either
\* before it has queued the work item (the executor was shut down) or after
\* (no thread can be started for it): in the second case the work item stays
\* on the executor's queue.
StartSubmitRaise ==
    /\ req.op = "transcribe"
    /\ req.pc = "l178"
    /\ \E queued \in BOOLEAN :
           /\ queue' = IF queued THEN Append(queue, req.id) ELSE queue
           /\ pc' = IF queued THEN [pc EXCEPT ![req.id] = "queued"] ELSE pc
    /\ req' = [req EXCEPT !.pc = "l123"]
    /\ UNCHANGED <<jobs, job, next_id, args, result, exc, handle, lock,
                   model_vars, files, now, hist_vars>>

\* router l.123: if os.path.exists(temp_path); when the file is gone (the
\* runner of a work item that stayed queued has removed it) the handler goes
\* on to l.125 and answers 500
StartFailedExists ==
    /\ req.op = "transcribe"
    /\ req.pc = "l123"
    /\ req' = IF req.id \in files THEN [req EXCEPT !.pc = "l124"]
                                  ELSE Respond("500")
    /\ UNCHANGED <<store_vars, job, runner_vars, lock, model_vars, files, now,
                   hist_vars>>

\* router l.124-125: os.remove(temp_path) removes the upload; the handler
\* answers 500
StartFailedRemove ==
    /\ req.op = "transcribe"
    /\ req.pc = "l124"
    /\ req.id \in files
    /\ files' = files \ {req.id}
    /\ req' = Respond("500")
    /\ UNCHANGED <<store_vars, job, runner_vars, lock, model_vars, now, hist_vars>>

\* router l.124: os.remove(temp_path) raises OSError (the removal is refused,
\* or the runner has removed the file since l.123); nothing catches it, the
\* files are left as they are and the server answers 500 for the unhandled
\* exception
StartFailedRemoveRaise ==
    /\ req.op = "transcribe"
    /\ req.pc = "l124"
    /\ req' = Respond("500 unhandled")
    /\ UNCHANGED <<store_vars, job, runner_vars, lock, model_vars, files, now,
                   hist_vars>>

\* get_job l.264-267, called at router l.131, l.146 and l.173
GetJob(op, j, to) ==
    /\ req.op = "idle"
    /\ j < next_id
    /\ lock = 0
    /\ req' = IF j \in jobs
              THEN [IdleReq EXCEPT !.op = op, !.pc = to, !.id = j, !.found = TRUE]
              ELSE [IdleReq EXCEPT !.op = op, !.pc = "respond", !.id = j,
                                   !.response = "404"]
    /\ UNCHANGED <<store_vars, job, runner_vars, lock, model_vars, files, now,
                   hist_vars>>

\* One statement of a handler that takes no lock.
Handler(at, r) ==
    /\ req.pc = at
    /\ req' = r
    /\ UNCHANGED <<store_vars, job, runner_vars, lock, model_vars, files, now,
                   hist_vars>>

\* ---- get_status, router l.128-140
StatusGetJob(j) == GetJob("status", j, "l137")

StatusReadStatus ==
    /\ req.op = "status"
    /\ Handler("l137", [req EXCEPT !.status = job[req.id].status, !.pc = "l138"])

StatusReadProgress ==
    /\ req.op = "status"
    /\ Handler("l138", [req EXCEPT !.progress = job[req.id].progress, !.pc = "l139"])

StatusReadMessage ==
    /\ req.op = "status"
    /\ Handler("l139", [req EXCEPT !.message = job[req.id].message,
                                   !.pc = "respond", !.response = "status"])

\* ---- get_result, router l.143-167
ResultGetJob(j) == GetJob("result", j, "l150")

\* `if job.status == X: raise HTTPException(...)`
ResultTest(at, x, kind, else) ==
    /\ req.op = "result"
    /\ Handler(at, IF job[req.id].status = x
                   THEN [req EXCEPT !.status = x, !.pc = "respond", !.response = kind]
                   ELSE [req EXCEPT !.pc = else])

ResultTestPending == ResultTest("l150", PENDING, "202 pending", "l153")
ResultTestProcessing == ResultTest("l153", PROCESSING, "202 processing", "l156")

ResultTestFailed ==
    /\ req.op = "result"
    /\ Handler("l156", IF job[req.id].status = FAILED
                       THEN [req EXCEPT !.status = FAILED, !.pc = "l157"]
                       ELSE [req EXCEPT !.pc = "l159"])

\* detail=job.error or "Transcription failed"
ErrorDetail(error) ==
    IF error = None \/ error = Some("") THEN Some("Transcription failed") ELSE error

ResultReadError ==
    /\ req.op = "result"
    /\ Handler("l157", [req EXCEPT !.error = ErrorDetail(job[req.id].error),
                                   !.pc = "respond", !.response = "500"])

ResultTestCancelled == ResultTest("l159", CANCELLED, "410", "l164")

ResultReadText ==
    /\ req.op = "result"
    /\ Handler("l164", [req EXCEPT !.text = job[req.id].text, !.pc = "l165"])

ResultReadLanguage ==
    /\ req.op = "result"
    /\ Handler("l165", [req EXCEPT !.language = job[req.id].language, !.pc = "l166"])

ResultReadDuration ==
    /\ req.op = "result"
    /\ Handler("l166", [req EXCEPT !.duration_seconds = job[req.id].duration_seconds,
                                   !.pc = "respond", !.response = "result"])

\* ---- cancel_job, router l.170-183
CancelGetJob(j) == GetJob("cancel", j, "l177")

CancelReadStatus ==
    /\ req.op = "cancel"
    /\ Handler("l177", [req EXCEPT !.status = job[req.id].status,
                                   !.pc = IF job[req.id].status \in {PENDING, PROCESSING}
                                          THEN "l178" ELSE "l182"])

\* l.178-179: transcription_service.cancel_job(job_id), its result unused
CancelCall ==
    /\ req.op = "cancel"
    /\ req.pc = "l178"
    /\ lock = 0
    /\ job' = IF req.id \in jobs THEN [job EXCEPT ![req.id] = CancelJob(@)] ELSE job
    /\ req' = Respond("cancelled")
    /\ UNCHANGED <<store_vars, runner_vars, lock, model_vars, files, now, hist_vars>>

\* l.182-183: transcription_service.delete_job(job_id), its result unused
DeleteCall ==
    /\ req.op = "cancel"
    /\ req.pc = "l182"
    /\ lock = 0
    /\ jobs' = DeleteJob(jobs, req.id)
    /\ deleted' = IF req.id \in jobs THEN deleted \cup {req.id} ELSE deleted
    /\ req' = Respond("deleted")
    /\ UNCHANGED <<job, next_id, args, queue, runner_vars, lock, model_vars,
                   files, now, completed_at_writes, snapshots, flag_at_start,
                   cancelled_at>>

\* The response is sent; the event loop takes the next request.
Return ==
    /\ req.pc = "respond"
    /\ req' = IdleReq
    /\ UNCHANGED <<store_vars, job, runner_vars, lock, model_vars, files, now,
                   hist_vars>>

\* time.time() advances, whatever the jobs are doing.
Tick ==
    /\ now < MaxTime
    /\ now' = now + 1
    /\ UNCHANGED <<store_vars, job, runner_vars, lock, model_vars, files, req,
                   hist_vars>>

Runner(j) ==
    \/ RunGetJob(j)
    \/ RunProcessingStatus(j)
    \/ RunProcessingMessage(j)
    \/ RunProcessingProgress(j)
    \/ RunCheck1(j)
    \/ RunCancel1Status(j)
    \/ RunCancel1Message(j)
    \/ LoadModelEnter(j)
    \/ LoadModelHit(j)
    \/ LoadModelMiss(j)
    \/ LoadModelRaise(j)
    \/ LoadModelSetName(j)
    \/ LoadModelReturn(j)
    \/ RunTranscribingMessage(j)
    \/ RunTranscribingProgress(j)
    \/ RunCheck2(j)
    \/ RunCancel2Status(j)
    \/ RunCancel2Message(j)
    \/ TranscribeReturn(j)
    \/ TranscribeRaise(j)
    \/ RunCheck3(j)
    \/ RunCancel3Status(j)
    \/ RunCancel3Message(j)
    \/ RunCompletedStatus(j)
    \/ RunCompletedProgress(j)
    \/ RunCompletedMessage(j)
    \/ RunCompletedText(j)
    \/ RunCompletedLanguage(j)
    \/ RunCompletedDuration(j)
    \/ RunCompletedAt(j)
    \/ RunFailedStatus(j)
    \/ RunFailedError(j)
    \/ RunFailedMessage(j)
    \/ RunFailedAt(j)
    \/ RunCleanup(j)

Request ==
    \/ StartSave
    \/ StartInsert
    \/ StartSubmit
    \/ \E j \in Ids : StatusGetJob(j)
    \/ StatusReadStatus
    \/ StatusReadProgress
    \/ StatusReadMessage
    \/ \E j \in Ids : ResultGetJob(j)
    \/ ResultTestPending
    \/ ResultTestProcessing
    \/ ResultTestFailed
    \/ ResultReadError
    \/ ResultTestCancelled
    \/ ResultReadText
    \/ ResultReadLanguage
    \/ ResultReadDuration
    \/ \E j \in Ids : CancelGetJob(j)
    \/ CancelReadStatus
    \/ CancelCall
    \/ DeleteCall
    \/ Return

Next ==
    \/ Request
    \/ Dequeue
    \/ \E j \in Ids : Runner(j)
    \/ Tick

Spec == Init /\ [][Next]_vars

\* The requests that change the service: submissions and the cancel
\* endpoint.  get_status and get_result only read.
Mutation ==
    \/ StartSave
    \/ StartInsert
    \/ StartSubmit
    \/ \E j \in Ids : CancelGetJob(j)
    \/ CancelReadStatus
    \/ CancelCall
    \/ DeleteCall
    \/ Return

NextMutation ==
    \/ Mutation
    \/ Dequeue
    \/ \E j \in Ids : Runner(j)
    \/ Tick

\* The executor's worker threads keep running: a free worker takes the next
\* work item, a runner that can take a step takes it, and every backend call
\* returns or raises.  Nothing is assumed of the clients.
FairSpec ==
    /\ Init
    /\ [][NextMutation]_vars
    /\ WF_vars(Dequeue)
    /\ \A j \in Ids : WF_vars(Runner(j))

\* The service under submissions and the cancel endpoint: jobs age while
\* they are PENDING, PROCESSING or CANCELLED too.
ReaperSpec == Init /\ [][NextMutation]_vars

\* The service constructed with its default pool size, under submissions and
\* the cancel endpoint: runners of different jobs overlap.
NextPool ==
    \/ Mutation
    \/ DequeueDefault
    \/ \E j \in Ids : Runner(j)
    \/ Tick

PoolSpec == Init /\ [][NextPool]_vars

\* The service in an environment whose calls may fail: the executor may
\* refuse a work item, and the removal of a temporary file may fail.
NextEnqueue ==
    \/ NextMutation
    \/ StartSubmitRaise
    \/ StartFailedExists
    \/ StartFailedRemove
    \/ StartFailedRemoveRaise
    \/ \E j \in Ids : RunCleanupRemoveFails(j)

EnqueueSpec == Init /\ [][NextEnqueue]_vars

\* delete_job l.282-288 called on the service itself, by a caller other than
\* the cancel endpoint: it removes the record whatever its status.
DeleteJobDirect(j) ==
    /\ j < next_id
    /\ lock = 0
    /\ jobs' = DeleteJob(jobs, j)
    /\ deleted' = IF j \in jobs THEN deleted \cup {j} ELSE deleted
    /\ UNCHANGED <<job, next_id, args, queue, runner_vars, lock, model_vars,
                   files, now, req, completed_at_writes, snapshots, flag_at_start,
                   cancelled_at>>

\* The service with every caller of its methods: the router's submissions
\* and cancel endpoint, and direct delete_job calls.
NextService ==
    \/ NextMutation
    \/ \E j \in Ids : DeleteJobDirect(j)

ServiceSpec == Init /\ [][NextService]_vars

\* ================================================================ claims
\* The step in which start_transcription inserts its record and sweeps
\* (l.173-175).
InsertStep == req.op = "transcribe" /\ req.pc = "l173" /\ req'.pc = "l178"

\* start_transcription has put the record of job j in the store (l.174).
Inserted(j) == j < next_id /\ ~(req.op = "transcribe" /\ req.pc = "l173" /\ req.id = j)

\* The runner of j has left its try block (l.206, l.220, l.234, l.247, l.254).
Ended(j) == pc[j] \in {"l258", "done"}

\* C1: once a job's status is COMPLETED, FAILED or CANCELLED, no step of any
\* operation (runner, cancel_job, delete_job, reaper, temp-file cleanup)
\* changes that status.
C1_TerminalStatusImmutable ==
    [][\A j \in Ids : job[j].status \in Terminal => job'[j].status = job[j].status]_vars

\* A completed job on which the cancel endpoint then acted (it deleted it).
C1_Witness ==
    \E j \in Ids :
        /\ job[j].status = COMPLETED
        /\ pc[j] = "done"
        /\ req.op = "cancel" /\ req.id = j /\ req.response = "deleted"

\* C2: a job whose load and transcribe calls returned (the runner holds a
\* result) and on which cancel was never requested ends COMPLETED with
\* progress 100 and completed_at assigned; a COMPLETED job has had exactly one
\* assignment to completed_at, and no job ever has a second one.
C2_SuccessEndsCompleted ==
    \A j \in Ids :
        /\ (pc[j] = "l258" /\ result[j] # None /\ ~job[j].cancelled)
               => /\ job[j].status = COMPLETED
                  /\ job[j].progress = 100
                  /\ job[j].completed_at # 0
        /\ (Ended(j) /\ job[j].status = COMPLETED) => completed_at_writes[j] = 1
        /\ completed_at_writes[j] <= 1

\* The runner has just finished a successful, never-cancelled job.
C2_Witness ==
    \E j \in Ids :
        /\ pc[j] = "l258" /\ result[j] # None /\ ~job[j].cancelled
        /\ job[j].status = COMPLETED

\* C3 as stated: a job whose load or transcribe call raised ends FAILED with
\* a non-empty error field and no text.
C3_FailureHasNonEmptyError ==
    \A j \in Ids :
        (pc[j] = "l258" /\ exc[j] # None)
            => /\ job[j].status = FAILED
               /\ job[j].error # None /\ job[j].error # Some("")
               /\ job[j].text = None

\* C3 amended: a job whose load or transcribe call raised ends FAILED with
\* the error field set to the description of the error (the empty string for
\* an error raised without a message), with no text, and with the runner
\* ending normally; a FAILED record never carries a text.
C3_FailureRecordsDescription ==
    \A j \in Ids :
        /\ (pc[j] = "l258" /\ exc[j] # None)
               => /\ job[j].status = FAILED
                  /\ job[j].error = exc[j]
                  /\ job[j].text = None
        /\ (Ended(j) /\ job[j].status = FAILED)
               => job[j].error # None /\ job[j].text = None

\* The runner has just recorded a failure.
C3_Witness ==
    \E j \in Ids : pc[j] = "l258" /\ exc[j] # None /\ job[j].status = FAILED

\* C4: if cancel is called on a job that is PENDING and that no worker has
\* dequeued yet, the job eventually becomes CANCELLED, and from that call on
\* its text is never populated: not while the worker that found the flag set
\* on taking the job runs it, and not later.
C4_CancelBeforeDequeue ==
    /\ [](\A j \in Ids : flag_at_start[j] => job[j].text = None)
    /\ \A j \in Ids :
           /\ (job[j].cancelled /\ pc[j] = "queued") ~> (job[j].status = CANCELLED)
           /\ []((job[j].cancelled /\ pc[j] = "queued") => [](job[j].text = None))

\* The cancel endpoint has just set the flag of a job still in the queue.
C4_Witness ==
    \E j \in Ids :
        /\ job[j].cancelled /\ pc[j] = "queued" /\ job[j].status = PENDING
        /\ req.op = "cancel" /\ req.id = j /\ req.response = "cancelled"

\* C5: the cancel endpoint, on a job it finds COMPLETED, FAILED or CANCELLED,
\* removes the record and answers {deleted: true}; a removed record never
\* comes back, and get_status on a removed record answers not-found.
C5_CancelOnTerminalDeletes ==
    /\ [](req.op = "cancel" /\ req.pc = "respond" /\ req.status \in Terminal
              => req.response = "deleted" /\ req.id \notin jobs)
    /\ [][\A j \in Ids : (Inserted(j) /\ j \notin jobs) => j \notin jobs']_vars
    /\ [](req.op = "status" /\ req.pc = "respond" /\ req.id \notin jobs
              => req.response = "404")

\* get_status answers for a job that the cancel endpoint deleted after it
\* had completed.
C5_Witness ==
    /\ req.op = "status" /\ req.pc = "respond" /\ req.response = "404"
    /\ job[req.id].status = COMPLETED

\* C6: the sweep that start_transcription runs leaves no COMPLETED job whose
\* completed_at is more than the TTL in the past, and removes no COMPLETED
\* job whose completed_at is at most the TTL in the past.
C6_ReaperOnCreate ==
    [][InsertStep
          => /\ \A j \in jobs' :
                    ~(job[j].status = COMPLETED /\ now - job[j].completed_at > job_ttl_seconds)
             /\ \A j \in jobs :
                    (job[j].status = COMPLETED /\ now - job[j].completed_at <= job_ttl_seconds)
                        => j \in jobs']_vars

\* start_transcription has just swept: a COMPLETED job exactly TTL old is
\* still stored.
C6_Witness ==
    /\ req.op = "transcribe" /\ req.pc = "l178"
    /\ \E j \in jobs :
           job[j].status = COMPLETED /\ now - job[j].completed_at = job_ttl_seconds

\* C7 as stated: in every state, inside the runner's lock sections included
\* (the router reads the fields of the live record without the lock), the
\* text of a job is set if and only if the job is COMPLETED, and its error is
\* set if and only if the job is FAILED.
C7_ResultIffCompleted ==
    \A j \in Ids :
        /\ (job[j].text # None) <=> (job[j].status = COMPLETED)
        /\ (job[j].error # None) <=> (job[j].status = FAILED)

\* C8 as stated: in every state in which job j's runner is not inside a
\* section of the store lock, completed_at of j is set if and only if the
\* status of j is COMPLETED, FAILED or CANCELLED.
C8_CompletedAtIffTerminal ==
    \A j \in Ids :
        lock # j => ((job[j].completed_at # 0) <=> (job[j].status \in Terminal))

\* C9 as stated: the (status, progress, message) that get_status reports is
\* one that the record held, all three together, at an instant outside the
\* runner's lock sections.
C9_StatusIsSnapshot ==
    (req.op = "status" /\ req.pc = "respond" /\ req.response = "status")
        => <<req.status, req.progress, req.message>> \in snapshots[req.id]

\* C10 as stated: get_result answers with the payload only for a COMPLETED
\* job and then with the text, language and duration the runner recorded,
\* the text being set; with still-running only on PENDING or PROCESSING; with
\* the error payload only for FAILED; with was-cancelled only for CANCELLED;
\* with not-found only when the record is absent.
C10_ResultMatchesStatus ==
    (req.op = "result" /\ req.pc = "respond") =>
        /\ req.response = "result" =>
               /\ job[req.id].status = COMPLETED
               /\ req.text # None
               /\ Ended(req.id) =>
                      /\ req.text = job[req.id].text
                      /\ req.language = job[req.id].language
                      /\ req.duration_seconds = job[req.id].duration_seconds
        /\ req.response = "202 pending" => req.status = PENDING
        /\ req.response = "202 processing" => req.status = PROCESSING
        /\ req.response = "500" => job[req.id].status = FAILED
        /\ req.response = "410" => job[req.id].status = CANCELLED
        /\ req.response = "404" => req.id \notin jobs

\* C11 as stated: whenever the cancel endpoint answers {cancelled: true}, the
\* cancel_job call it made has set the job's cancelled flag (the job was
\* PENDING or PROCESSING when the call looked at it under the lock).
C11_CancelledReportMeansFlagSet ==
    (req.op = "cancel" /\ req.pc = "respond" /\ req.response = "cancelled")
        => job[req.id].cancelled

\* C12 as stated: a job on which cancel_job has set the flag (it was PENDING
\* or PROCESSING at that call, which returned true) is never COMPLETED.
C12_CancelledNeverCompletes ==
    \A j \in Ids : job[j].cancelled => job[j].status # COMPLETED

\* Jobs submitted before k whose status is not yet terminal.
Unfinished(k) == {j \in Ids : j < k /\ job[j].status \notin Terminal}

\* C13: a job leaves PENDING only when fewer than max_workers of the jobs
\* submitted before it are unfinished; with a pool of one worker, the second
\* of two jobs submitted back to back stays PENDING until the first is
\* COMPLETED, FAILED or CANCELLED, and jobs become terminal in submission
\* order.
C13_SingleWorkerFifo ==
    \A k \in Ids :
        /\ (pc[k] # "new" /\ job[k].status # PENDING)
               => Cardinality(Unfinished(k)) < max_workers
        /\ (max_workers = 1 /\ pc[k] # "new" /\ job[k].status \in Terminal)
               => Unfinished(k) = {}

\* The second job waits in the queue, PENDING, while the first is PROCESSING
\* on the only worker.
C13_Witness ==
    \E j, k \in Ids :
        /\ j < k
        /\ job[j].status = PROCESSING /\ Cardinality(Running) = max_workers
        /\ pc[k] = "queued" /\ job[k].status = PENDING

\* C14: a job submitted while every worker is busy stays in the executor's
\* queue until a worker takes it, and under fair scheduling of the workers,
\* with backend calls that return or raise, every submitted job reaches
\* COMPLETED, FAILED or CANCELLED.
C14_EverySubmittedJobEnds ==
    /\ [](\A j \in Ids : pc[j] = "queued" => \E i \in 1..Len(queue) : queue[i] = j)
    /\ \A j \in Ids : (pc[j] = "queued") ~> (job[j].status \in Terminal)

\* A job has been submitted while every worker is busy.
C14_Witness ==
    \E j \in Ids :
        /\ pc[j] = "queued" /\ Cardinality(Running) = max_workers
        /\ req.op = "transcribe" /\ req.id = j /\ req.response = "queued"

\* C15 as stated: once the runner of a submitted job has returned, whatever
\* the outcome, and also when the record was deleted from the store before a
\* worker took the job, the job's temporary input file has been removed.
C15_TempFileRemovedByRunner ==
    \A j \in Ids : pc[j] = "done" => j \notin files

\* C16: in every state, inside the runner's lock sections included, a job's
\* progress is 100 only if its status is COMPLETED.
C16_FullProgressOnlyCompleted ==
    \A j \in Ids : job[j].progress = 100 => job[j].status = COMPLETED

\* The runner has just written progress 100 (l.239), after COMPLETED (l.238).
C16_Witness ==
    \E j \in Ids : pc[j] = "l240" /\ lock = j /\ job[j].progress = 100

\* The runner of j is in a blocking backend call: waiting for or holding the
\* model lock in _load_model (l.209, l.140-146), or in model.transcribe
\* (l.223-227).
InBackend(j) == pc[j] \in {"l209", "l141", "l145", "l146", "l227"}

\* C18: no runner holds the store lock while it is in a backend call; and
\* while every running job is in a backend call the store lock is free, so
\* start_transcription, get_job, cancel_job and delete_job can take their
\* step.
C18_NoLockAcrossBackendCalls ==
    /\ \A j \in Ids : InBackend(j) => lock # j
    /\ (\A j \in Running : InBackend(j)) =>
           /\ lock = 0
           /\ (req.op = "transcribe" /\ req.pc = "l173") => ENABLED StartInsert
           /\ req.op = "idle" => \A j \in 1..(next_id - 1) : ENABLED StatusGetJob(j)
           /\ (req.op = "cancel" /\ req.pc = "l178") => ENABLED CancelCall
           /\ (req.op = "cancel" /\ req.pc = "l182") => ENABLED DeleteCall

\* get_status has just taken the store lock for one job while the runner of
\* another job is inside model.transcribe.
C18_Witness ==
    \E j, k \in Ids :
        /\ j # k /\ pc[j] = "l227"
        /\ req.op = "status" /\ req.id = k /\ req.pc = "l137"

\* No request has changed the service since the submission of job j returned:
\* no later submission, no delete of j and no cancel_job that set its flag.
\* The requests that may have been served since only read, so a get_status
\* of j issued now finds what one issued right after the submission finds on
\* the same schedule of the workers.
AfterSubmit(j) == j = next_id - 1 /\ j \notin deleted /\ ~job[j].cancelled

\* C17 as stated: the record is in the store, PENDING, when the work item is
\* handed to the pool, and a get_status issued after the submission returned,
\* with no delete in between, finds the record (it never answers not-found)
\* and finds it PENDING or PROCESSING at the instant it looks it up.
C17_StatusRightAfterSubmit ==
    [][/\ (req'.op = "transcribe" /\ req'.pc = "l178")
              => req'.id \in jobs' /\ job'[req'.id].status = PENDING
       /\ (req.op = "idle" /\ req'.op = "status" /\ AfterSubmit(req'.id))
              => /\ req'.response # "404"
                 /\ job'[req'.id].status \in {PENDING, PROCESSING}]_vars

\* C17 amended: the record is in the store, PENDING, when the work item is
\* handed to the pool, and a get_status issued after the submission returned,
\* with no delete in between, never answers not-found; it reports one of the
\* five statuses, other than PENDING only if a worker has started the job,
\* and COMPLETED, FAILED or CANCELLED only if the runner has recorded that
\* status.
C17_StatusAfterSubmitFound ==
    /\ (req.op = "transcribe" /\ req.pc = "l178")
           => req.id \in jobs /\ job[req.id].status = PENDING
    /\ (req.op = "status" /\ req.pc = "respond" /\ AfterSubmit(req.id))
           => /\ req.response = "status"
              /\ req.status \in JobStatus
              /\ req.status # PENDING => pc[req.id] \notin {"new", "queued", "l190", "l197"}
              /\ req.status \in Terminal => job[req.id].status = req.status

\* The poll of the job submitted last reports PROCESSING: a worker had
\* already taken the job.
C17_Witness ==
    /\ req.op = "status" /\ req.pc = "respond" /\ req.response = "status"
    /\ AfterSubmit(req.id)
    /\ req.status = PROCESSING

\* C19 as stated: a job whose cancelled flag was already set when a worker
\* took it from the queue never shows, outside its runner's lock sections,
\* status PROCESSING or a progress above 0: it goes from PENDING to
\* CANCELLED.
C19_CancelledAtDequeueSkipsProcessing ==
    \A j \in Ids :
        (flag_at_start[j] /\ lock # j)
            => job[j].status \in {PENDING, CANCELLED} /\ job[j].progress = 0

\* The runner of j has not yet passed its check after transcribe (l.230), or
\* is in the cancellation block that a check leads to.
BeforeLastCheck ==
    {"queued", "l190", "l197", "l198", "l199", "l202", "l204", "l205", "l209",
     "l141", "l145", "l146", "l212", "l213", "l216", "l218", "l219", "l227", "l230", "l232", "l233"}

\* C20: while the flag of a job is set and its runner has not passed the
\* check that follows the transcribe call (so whenever the flag became true
\* before that call returned, the time the worker is blocked in it
\* included), no text, language or duration is recorded; and every step
\* leaves the job in that situation, or is a backend call raising, or ends
\* the runner with status CANCELLED, message 'Cancelled by user' and still no
\* text, language or duration.
C20_CancelBeforeReturnDiscards ==
    [][\A j \in Ids :
          (job[j].cancelled /\ pc[j] \in BeforeLastCheck) =>
              /\ job[j].text = None /\ job'[j].text = None
              /\ job[j].language = None /\ job'[j].language = None
              /\ job[j].duration_seconds = 0 /\ job'[j].duration_seconds = 0
              /\ \/ job'[j].cancelled /\ pc'[j] \in BeforeLastCheck
                 \/ pc[j] \in {"l141", "l227"} /\ pc'[j] = "l251"
                 \/ /\ pc'[j] = "l258"
                    /\ job'[j].status = CANCELLED
                    /\ job'[j].message = Msg("Cancelled by user")]_vars

\* The flag was set before transcribe returned; the call returned a result,
\* and the runner has ended the job CANCELLED without recording it.
C20_Witness ==
    \E j \in Ids :
        /\ pc[j] = "l258" /\ result[j] # None
        /\ job[j].cancelled /\ job[j].status = CANCELLED
        /\ job[j].message = Msg("Cancelled by user") /\ job[j].text = None

\* The time at which record r of job j reached its terminal status:
\* completed_at for COMPLETED and FAILED (l.247, l.254), the time of the
\* CANCELLED write for CANCELLED (l.204, l.218, l.232).
ReachedAt(j, r) == IF r.status = CANCELLED THEN cancelled_at[j] ELSE r.completed_at

\* C21 as stated: when start_transcription has inserted its record and swept
\* (create() returns), no record whose runner has ended it COMPLETED, FAILED
\* or CANCELLED more than the TTL ago is left in the store.
C21_NoExpiredTerminalAfterCreate ==
    [][InsertStep
          => \A j \in jobs' :
                 (job[j].status \in Terminal /\ Ended(j))
                     => ~(now - ReachedAt(j, job[j]) > job_ttl_seconds)]_vars

\* C22: the sweep that start_transcription runs removes no PENDING or
\* PROCESSING record, however old, does not remove the record that the same
\* call has just inserted, and changes no field of any record.
C22_ReaperFrame ==
    [][InsertStep
          => /\ \A j \in jobs : job[j].status \in {PENDING, PROCESSING} => j \in jobs'
             /\ req'.id \in jobs'
             /\ job'[req'.id].status = PENDING
             /\ job' = job]_vars

\* start_transcription has just swept, more than the TTL after the clock
\* started: an older record that is still PROCESSING is in the store, and so
\* is the new one.
C22_Witness ==
    /\ req.op = "transcribe" /\ req.pc = "l178"
    /\ now - 1 > job_ttl_seconds
    /\ req.id \in jobs
    /\ \E j \in jobs : j # req.id /\ job[j].status = PROCESSING

\* C23: no step of a runner (nor of the executor) adds a key to the store or
\* removes one: the store changes only in start_transcription (insert and
\* sweep) and in delete_job; a deleted id never comes back, also while or
\* after its runner writes a terminal status; and every get_job on a deleted
\* id reports not-found.
C23_RunnerLeavesStoreAlone ==
    [][/\ (\E j \in Ids : pc'[j] # pc[j]) => jobs' = jobs
       /\ jobs' # jobs =>
              \/ InsertStep
              \/ req.op = "cancel" /\ req.pc = "l182" /\ jobs' = jobs \ {req.id}
              \/ req' = req /\ \E j \in jobs : jobs' = jobs \ {j}
       /\ \A j \in Ids : (Inserted(j) /\ j \notin jobs) => j \notin jobs'
       /\ (req.op = "idle" /\ req'.op = "cancel" /\ req'.id \notin jobs)
              => req'.response = "404"]_vars

\* A record was deleted while its runner was executing; the runner has since
\* written its terminal status, and get_job on that id reports not-found.
C23_Witness ==
    \E j \in Ids :
        /\ j < next_id /\ j \notin jobs
        /\ pc[j] = "l258" /\ job[j].status \in Terminal
        /\ req.op = "cancel" /\ req.id = j /\ req.response = "404"

\* The runner of j is inside `with self._model_lock` (l.140-146).
InLoadSection(j) == pc[j] \in {"l141", "l145", "l146"}

\* C24: at most one runner is inside the load section of _load_model; while
\* no runner is inside it, the cached handle is empty or is the one loaded
\* for the cached name; the handle changes only by a load for a name that is
\* not the cached one, which replaces the single entry; a request for the
\* cached name loads nothing.
C24_ModelCacheConsistent ==
    /\ [](Cardinality({j \in Ids : InLoadSection(j)}) <= 1)
    /\ []((\A j \in Ids : ~InLoadSection(j))
              => (whisper_model = None \/ whisper_model = current_model_name))
    /\ [][whisper_model' # whisper_model =>
              \E j \in Ids :
                  /\ pc[j] = "l141" /\ CacheMiss(args[j].model)
                  /\ whisper_model' = Some(args[j].model)]_vars
    /\ [][current_model_name' # current_model_name =>
              \E j \in Ids : pc[j] = "l145" /\ current_model_name' = whisper_model]_vars

\* One runner has loaded a model and has not yet recorded its name, so the
\* cache is inconsistent inside the section; another runner waits for the
\* model lock.
C24_Witness ==
    \E j, k \in Ids :
        /\ pc[j] = "l145" /\ pc[k] = "l209" /\ model_lock = j
        /\ whisper_model # current_model_name

\* C25: whenever the runner of a job is at its transcribe call, the handle it
\* calls is one that was loaded for the model name the job asked for, also
\* when another runner has since replaced the cache entry.
C25_TranscribeUsesOwnModel ==
    \A j \in Ids : pc[j] = "l227" => TranscribeHandle(j) = Some(args[j].model)

\* A runner is at its transcribe call with the handle of its own model while
\* the cache already holds the model another runner asked for.
C25_Witness ==
    \E j \in Ids :
        /\ pc[j] = "l227" /\ handle[j] = Some(args[j].model)
        /\ whisper_model # None /\ whisper_model # handle[j]

\* C26: the runners that have started and not yet returned are never more
\* than max_workers, and every work item still in the executor's queue
\* belongs to a job that is PENDING.
C26_RunningWithinCapacity ==
    /\ Cardinality(Running) <= max_workers
    /\ \A i \in 1..Len(queue) :
           pc[queue[i]] = "queued" /\ job[queue[i]].status = PENDING

\* Every worker is busy and a further job waits in the queue.
C26_Witness ==
    /\ Cardinality(Running) = max_workers
    /\ queue # <<>>
    /\ job[Head(queue)].status = PENDING

\* C27: a runner that has recorded FAILED or CANCELLED is on its way out of
\* _run_transcription (it has left the try block) and returns, so its worker
\* is free again; and while some job has ended FAILED or CANCELLED, every job
\* waiting in the queue is still taken by a worker and reaches COMPLETED,
\* FAILED or CANCELLED.
C27_WorkerSurvivesFailure ==
    /\ [](\A j \in Ids :
              (job[j].status \in {FAILED, CANCELLED} /\ lock # j) => Ended(j))
    /\ \A j \in Ids :
           /\ (job[j].status \in {FAILED, CANCELLED}) ~> (pc[j] = "done")
           /\ \A k \in Ids \ {j} :
                  (job[j].status \in {FAILED, CANCELLED} /\ pc[k] = "queued")
                      ~> (job[k].status \in Terminal /\ pc[k] = "done")

\* A job submitted behind one that failed has been run to completion by the
\* worker that ran the failed one.
C27_Witness ==
    \E j, k \in Ids :
        /\ j < k
        /\ job[j].status = FAILED /\ pc[j] = "done"
        /\ job[k].status = COMPLETED /\ pc[k] = "done"

\* C28 as stated: when start_transcription has failed because the work item
\* could not be handed to the pool, the submitter gets the failure and the
\* store holds no record for that submission; every PENDING record of a
\* finished submission has a work item queued or running.
C28_FailedEnqueueLeavesNoRecord ==
    /\ (req.op = "transcribe" /\ req.pc = "respond"
            /\ req.response \in {"500", "500 unhandled"})
           => req.id \notin jobs
    /\ \A j \in jobs :
           (job[j].status = PENDING /\ ~(req.op = "transcribe" /\ req.id = j))
               => pc[j] # "new"

\* t is s without its leading and trailing whitespace: s is t between two
\* runs of whitespace characters, and t neither starts nor ends with one.
Trimmed(s, t) ==
    /\ \E a, b \in 0..Len(s) :
           /\ a + Len(t) + b = Len(s)
           /\ \A i \in 1..Len(s) :
                  IF i <= a \/ i > a + Len(t) THEN s[i] \in Whitespace
                  ELSE s[i] = t[i - a]
    /\ t # <<>> => (t[1] \notin Whitespace /\ t[Len(t)] \notin Whitespace)

\* C29: when the runner has ended a job COMPLETED, the record holds the
\* backend's text without leading and trailing whitespace, the backend's
\* language or else the language given at submission, and as duration the
\* end of the last segment, or 0 when there is no segment.
C29_ResultIsReferenceMapping ==
    \A j \in Ids :
        (pc[j] = "l258" /\ job[j].status = COMPLETED) =>
            /\ result[j] # None
            /\ job[j].text # None
            /\ Trimmed(result[j][1].text, job[j].text[1])
            /\ job[j].language = (IF result[j][1].language # None
                                  THEN result[j][1].language
                                  ELSE args[j].language)
            /\ job[j].duration_seconds =
                   (IF result[j][1].segments = <<>> THEN 0
                    ELSE result[j][1].segments[Len(result[j][1].segments)])

\* A job has completed on a backend text with surrounding whitespace and one
\* segment: the text is stored trimmed and the duration is the segment's end.
C29_Witness ==
    \E j \in Ids :
        /\ pc[j] = "l258" /\ job[j].status = COMPLETED
        /\ result[j] # None
        /\ result[j][1].text # job[j].text[1]
        /\ Len(result[j][1].segments) = 1
        /\ job[j].duration_seconds = result[j][1].segments[1]
        /\ job[j].language = Some("en")

\* C30: the progress of a record is always one of 0, 5, 10 and 100, within
\* 0..100, and no step lowers it; a job that ends FAILED or CANCELLED keeps
\* the progress it had.
C30_ProgressMonotone ==
    [][\A j \in Ids :
          /\ job[j].progress \in {0, 5, 10, 100} /\ job'[j].progress \in {0, 5, 10, 100}
          /\ job'[j].progress >= job[j].progress
          /\ (job'[j].status \in {FAILED, CANCELLED} /\ job'[j].status # job[j].status)
                 => job'[j].progress = job[j].progress]_vars

\* A job has failed in its transcribe call and keeps progress 10.
C30_Witness ==
    \E j \in Ids :
        pc[j] = "l258" /\ job[j].status = FAILED /\ job[j].progress = 10

\* The step in which the cancel endpoint's call of cancel_job (l.269-280) runs.
CancelJobStep == req.op = "cancel" /\ req.pc = "l178" /\ req'.pc = "respond"

\* C31: once a job's cancelled flag is true it is true in every later state
\* of the record, whatever operation runs; the flag becomes true only in a
\* cancel_job call on that job that returns true, that is, when the job is in
\* the store and its status is PENDING or PROCESSING; a cancel_job call that
\* returns false (unknown or terminal job) changes neither the records nor
\* the store.
C31_CancelFlagSetOnce ==
    [][/\ \A j \in Ids :
            /\ job[j].cancelled => job'[j].cancelled
            /\ (~job[j].cancelled /\ job'[j].cancelled) =>
                   /\ CancelJobStep
                   /\ req.id = j
                   /\ CancelJobReturn(jobs, j)
                   /\ j \in jobs
                   /\ job[j].status \in {PENDING, PROCESSING}
       /\ (CancelJobStep /\ ~CancelJobReturn(jobs, req.id)) =>
              (job' = job /\ jobs' = jobs)
       /\ (CancelJobStep /\ CancelJobReturn(jobs, req.id)) =>
              job'[req.id].cancelled]_vars

\* One job's flag was set and its runner has written CANCELLED and ended with
\* the flag still set,
\* and cancel_job has just been called for a job that was removed from the
\* store while PENDING or PROCESSING: the call left its flag clear.
C31_Witness ==
    \E j, k \in Ids :
        /\ j # k
        /\ job[j].cancelled /\ job[j].status = CANCELLED /\ Ended(j)
        /\ req.op = "cancel" /\ req.pc = "respond" /\ req.id = k
        /\ req.response = "cancelled"
        /\ k \notin jobs
        /\ job[k].status \in {PENDING, PROCESSING}
        /\ ~job[k].cancelled

====
